---- MODULE Spec2Model ----
(***************************************************************************)
(* A model of the ATM Milano integration (custom_components/atm_milano):   *)
(*   - parse_wait_message, the wait-message parser (sensor.py),            *)
(*   - ATMClient.async_get_stop, the fetch-and-validate client (api.py),   *)
(*     called by ATMStopCoordinator._async_update_data (coordinator.py),   *)
(*   - async_setup_entry, the per-line sensor setup (sensor.py).           *)
(* Python strings that the code inspects character by character are        *)
(* sequences of one-character strings.                                     *)
(***************************************************************************)
EXTENDS Integers, Sequences, FiniteSets, TLC

VARIABLES
    \* parse_wait_message: the argument, how it was built, and the result
    wait_msg, form, parsed,
    \* ATMClient and one call of async_get_stop
    session, owns_session, pc, elapsed, gets, response, outcome,
    \* ATMStopCoordinator
    stop_name, refreshing, coord_result,
    \* async_setup_entry of the sensor platform
    lines, entities, setup_done,
    \* the line sensors: their parsed states, and the coordinator's last update
    parsed_states, setup_raised, last_update_success,
    \* the configuration step and the configured entries
    flow_input, flow_result, flow_error, flow_title, flow_fetches, configured,
    \* the sessions of a client, and the calls running on it
    c_session, c_owns, open_sessions, created, closing, fetching, started,
    last_completed

parseVars == <<wait_msg, form, parsed>>
clientVars == <<session, owns_session, pc, elapsed, gets, response, outcome>>
coordVars == <<stop_name, refreshing, coord_result>>
setupVars == <<lines, entities, setup_done>>
sensorVars == <<parsed_states, setup_raised, last_update_success>>
flowVars ==
    <<flow_input, flow_result, flow_error, flow_title, flow_fetches, configured>>
sessionVars ==
    <<c_session, c_owns, open_sessions, created, closing, fetching, started,
      last_completed>>
vars ==
    <<parseVars, clientVars, coordVars, setupVars, sensorVars, flowVars,
      sessionVars>>

----------------------------------------------------------------------------
(* Bounds of the model *)

\* longest run of whitespace put before, inside or after a generated message
MaxPad == 1
\* largest number of minutes in a generated "<n> min" message
MaxMinutes == 11
\* longest message drawn from Alphabet without any structure
MaxLen == 4
\* longest Lines sequence handed to the sensor setup
MaxLines == 3
\* the longest stop identifier typed into the form, the listed ones apart
MaxStopLen == 1
\* the number of async_get_stop and async_close calls made on one client
MaxCalls == 5
\* the number of line entries of a snapshot the sensors are followed through
MaxSnapshot == 2

----------------------------------------------------------------------------
(* Python strings *)

Whitespace == {" ", "\t"}
Digit == {"0", "1", "2", "3", "4", "5", "6", "7", "8", "9"}

UpperLetters ==
    <<"A", "B", "C", "D", "E", "F", "G", "H", "I", "J", "K", "L", "M",
      "N", "O", "P", "Q", "R", "S", "T", "U", "V", "W", "X", "Y", "Z">>
LowerLetters ==
    <<"a", "b", "c", "d", "e", "f", "g", "h", "i", "j", "k", "l", "m",
      "n", "o", "p", "q", "r", "s", "t", "u", "v", "w", "x", "y", "z">>

\* str.lower() on one character
LowerChar(c) ==
    IF \E i \in 1..26 : UpperLetters[i] = c
    THEN LowerLetters[CHOOSE i \in 1..26 : UpperLetters[i] = c]
    ELSE c

\* str.upper() on one character, used only to build differently-cased inputs
UpperChar(c) ==
    IF \E i \in 1..26 : LowerLetters[i] = c
    THEN UpperLetters[CHOOSE i \in 1..26 : LowerLetters[i] = c]
    ELSE c

\* str.lower()
lower(s) == [i \in 1..Len(s) |-> LowerChar(s[i])]

\* the number of whitespace characters s starts with
RECURSIVE LeadingWs(_)
LeadingWs(s) ==
    IF s # << >> /\ Head(s) \in Whitespace THEN 1 + LeadingWs(Tail(s)) ELSE 0

\* the number of whitespace characters s ends with
RECURSIVE TrailingWs(_)
TrailingWs(s) ==
    IF s # << >> /\ s[Len(s)] \in Whitespace
    THEN 1 + TrailingWs(SubSeq(s, 1, Len(s) - 1))
    ELSE 0

\* str.strip()
strip(s) ==
    IF LeadingWs(s) = Len(s) THEN << >>
    ELSE SubSeq(s, LeadingWs(s) + 1, Len(s) - TrailingWs(s))

\* the number of decimal digits s starts with
RECURSIVE LeadingDigits(_)
LeadingDigits(s) ==
    IF s # << >> /\ Head(s) \in Digit THEN 1 + LeadingDigits(Tail(s)) ELSE 0

DigitValue(c) ==
    CASE c = "0" -> 0 [] c = "1" -> 1 [] c = "2" -> 2 [] c = "3" -> 3
      [] c = "4" -> 4 [] c = "5" -> 5 [] c = "6" -> 6 [] c = "7" -> 7
      [] c = "8" -> 8 [] c = "9" -> 9

\* int() of a string of decimal digits
RECURSIVE int(_)
int(s) ==
    IF s = << >> THEN 0
    ELSE 10 * int(SubSeq(s, 1, Len(s) - 1)) + DigitValue(s[Len(s)])

\* needle in hay (Python's substring test)
Contains(hay, needle) ==
    \E i \in 0..(Len(hay) - Len(needle)) :
        SubSeq(hay, i + 1, i + Len(needle)) = needle

----------------------------------------------------------------------------
(* const.py *)

API_TIMEOUT == 20

\* the members of the enum WaitStatus and their values
WaitStatus ==
    [MINUTES |-> "minutes", ARRIVING |-> "arriving", UPDATING |-> "updating",
     CANCELLED |-> "cancelled", UNKNOWN |-> "unknown"]

STATUS_IN_ARRIVO == <<"i", "n", " ", "a", "r", "r", "i", "v", "o">>
STATUS_RICALCOLO == <<"r", "i", "c", "a", "l", "c", "o", "l", "o">>
STATUS_SOPPRESSA == <<"s", "o", "p", "p", "r", "e", "s", "s", "a">>

\* The result of WAIT_MINUTES_PATTERN.match(s), ^\s*(\d+)\s*min ignoring case:
\* group 1 when it matches, otherwise no match.
NoMatch == [matched |-> FALSE, group1 |-> << >>]
WrongUnitMatch(s) ==
    LET a == LeadingWs(s)
        r1 == SubSeq(s, a + 1, Len(s))
        d == LeadingDigits(r1)
        r2 == SubSeq(r1, d + 1, Len(r1))
        b == LeadingWs(r2)
        r3 == SubSeq(r2, b + 1, Len(r2))
    IN  IF d >= 1 /\ Len(r3) >= 3 /\ SubSeq(r3, 1, 3) = <<"m", "i", "n">>
        THEN [matched |-> TRUE, group1 |-> SubSeq(r1, 1, d)]
        ELSE NoMatch
WAIT_MINUTES_PATTERN_match(s) ==
    LET a == LeadingWs(s)
        r1 == SubSeq(s, a + 1, Len(s))
        d == LeadingDigits(r1)
        r2 == SubSeq(r1, d + 1, Len(r1))
        b == LeadingWs(r2)
        r3 == SubSeq(r2, b + 1, Len(r2))
    IN  IF d >= 1 /\ Len(r3) >= 3 /\ lower(SubSeq(r3, 1, 3)) = <<"m", "i", "n">>
        THEN [matched |-> TRUE, group1 |-> SubSeq(r1, 1, d)]
        ELSE NoMatch

----------------------------------------------------------------------------
(* sensor.py: parse_wait_message *)

\* Optional values: None is the empty sequence, a present value v is <<v>>.
None == << >>
Some(v) == <<v>>

\* state_value is an int or a str
IntValue(n) == [t |-> "int", n |-> n, s |-> << >>]
StrValue(s) == [t |-> "str", n |-> 0, s |-> s]

\* the argument wait_msg: None or a str
NoMessage == [present |-> FALSE, text |-> << >>]
Message(s) == [present |-> TRUE, text |-> s]

\* a call that raised exc instead of returning
ParseRaised(exc) ==
    [kind |-> "raise", exc |-> exc, raw_text |-> << >>,
     state_value |-> StrValue(<< >>), wait_minutes |-> None, status |-> "",
     unit |-> None]

\* ParsedWaitMessage(raw_text=..., status=WaitStatus.<member>, ...): evaluating
\* the member raises AttributeError when the enum has no member of that name.
ParsedWaitMessage(raw_text, state_value, wait_minutes, member, unit) ==
    IF member \in DOMAIN WaitStatus
    THEN [kind |-> "return", exc |-> "", raw_text |-> raw_text,
          state_value |-> state_value, wait_minutes |-> wait_minutes,
          status |-> WaitStatus[member], unit |-> unit]
    ELSE ParseRaised("AttributeError")

parse_wait_message(msg) ==
    IF ~msg.present
    THEN ParsedWaitMessage(<< >>, StrValue(<<"u", "n", "k", "n", "o", "w", "n">>),
                           None, "UNKNOWN_TEXT", None)
    ELSE
      LET raw_text == strip(msg.text)
          lower_text == lower(raw_text)
          match == WAIT_MINUTES_PATTERN_match(raw_text)
          minutes == int(match.group1)
      IN  IF match.matched
          THEN ParsedWaitMessage(raw_text, IntValue(minutes), Some(minutes),
                                 "MINUTES", Some("min"))
          ELSE IF lower_text = STATUS_IN_ARRIVO
          THEN ParsedWaitMessage(raw_text, StrValue(raw_text), Some(0),
                                 "IN_ARRIVO", None)
          ELSE IF lower_text = STATUS_RICALCOLO
          THEN ParsedWaitMessage(raw_text, StrValue(raw_text), None,
                                 "RICALCOLO", None)
          ELSE IF lower_text = STATUS_SOPPRESSA
          THEN ParsedWaitMessage(raw_text, StrValue(raw_text), None,
                                 "SOPPRESSA", None)
          ELSE ParsedWaitMessage(raw_text, StrValue(raw_text), None,
                                 "UNKNOWN_TEXT", None)

----------------------------------------------------------------------------
(* The messages parse_wait_message is applied to *)

\* sequences of whitespace of length 0..MaxPad
Pads == UNION {[1..k -> Whitespace] : k \in 0..MaxPad}

DigitChar(d) ==
    CASE d = 0 -> "0" [] d = 1 -> "1" [] d = 2 -> "2" [] d = 3 -> "3"
      [] d = 4 -> "4" [] d = 5 -> "5" [] d = 6 -> "6" [] d = 7 -> "7"
      [] d = 8 -> "8" [] d = 9 -> "9"

\* the decimal numeral of n
RECURSIVE Numeral(_)
Numeral(n) ==
    IF n < 10 THEN <<DigitChar(n)>>
    ELSE Numeral(n \div 10) \o <<DigitChar(n % 10)>>

\* s with the letters at the positions in mask in upper case
Cased(s, mask) ==
    [i \in 1..Len(s) |-> IF i \in mask THEN UpperChar(s[i]) ELSE s[i]]

Min == <<"m", "i", "n">>
Phrases == {STATUS_IN_ARRIVO, STATUS_RICALCOLO, STATUS_SOPPRESSA}

\* How a message was built: its kind, the minutes n of an "<n> min" message,
\* the phrase of a fixed-phrase message
Form(kind, n, phrase) == [kind |-> kind, n |-> n, phrase |-> phrase]

\* "<n> min": padding, optional leading zero, the numeral, any whitespace,
\* "min" in any letter case, padding
MinuteMessage(pre, zero, n, mid, mask, post) ==
    Message(pre \o zero \o Numeral(n) \o mid \o Cased(Min, mask) \o post)

\* one of the three fixed phrases in any letter case, with padding
PhraseMessage(pre, p, mask, post) == Message(pre \o Cased(p, mask) \o post)

Alphabet == {" ", "1", "m", "i", "n", "N"}

\* a few texts longer than MaxLen
LongerTexts ==
    {<<"5", " ", "m", "i", "n", "u", "t", "i">>,
     <<"-", "3", " ", "m", "i", "n">>,
     <<"i", "n", " ", "a", "r", "r", "i", "v", "o", "!">>,
     <<"q", "u", "a", "l", "c", "o", "s", "a">>,
     <<"u", "n", "k", "n", "o", "w", "n">>}

ParsePending ==
    [kind |-> "pending", exc |-> "", raw_text |-> << >>,
     state_value |-> StrValue(<< >>), wait_minutes |-> None, status |-> "",
     unit |-> None]

----------------------------------------------------------------------------
(* api.py: what the upstream can send *)

Statuses == {200, 204, 403, 404, 500}

CT_JSON == <<"a", "p", "p", "l", "i", "c", "a", "t", "i", "o", "n", "/", "j", "s", "o", "n">>
CT_HTML == <<"t", "e", "x", "t", "/", "h", "t", "m", "l">>
CT_HTML_CHARSET == CT_HTML \o <<";", " ", "c", "h", "a", "r", "s", "e", "t", "=", "u", "t", "f", "-", "8">>
CT_HTML_UPPER == <<"T", "e", "x", "t", "/", "H", "T", "M", "L">>
CT_PLAIN == <<"t", "e", "x", "t", "/", "p", "l", "a", "i", "n">>
\* no Content-Type header: response.headers.get("Content-Type", "")
CT_MISSING == << >>
ContentTypes == {CT_JSON, CT_HTML, CT_HTML_CHARSET, CT_HTML_UPPER, CT_PLAIN, CT_MISSING}

AccessDenied == <<"A", "c", "c", "e", "s", "s", " ", "D", "e", "n", "i", "e", "d">>
\* bodies read as text
Texts ==
    {AccessDenied,
     lower(AccessDenied),
     [i \in 1..Len(AccessDenied) |-> UpperChar(AccessDenied[i])],
     <<"<", "p", ">">> \o Cased(lower(AccessDenied), {2, 4, 9}) \o <<"<", "/", "p", ">">>,
     <<"A", "c", "c", "e", "s", "s", " ", "o", "k">>,
     <<"N", "o", "t", " ", "f", "o", "u", "n", "d">>,
     << >>}

Descriptions == {"Duomo", "Cadorna"}

\* The value of the Lines field: null, a number, a string or a list of n entries
LinesValues ==
    {[t |-> "null", len |-> 0], [t |-> "int", len |-> 0], [t |-> "str", len |-> 2],
     [t |-> "list", len |-> 0], [t |-> "list", len |-> 2]}

\* What json decoding makes of a body: invalid JSON, or a value that is null, a
\* list, or an object with or without the fields Description and Lines
NoDoc == [t |-> "none", Description |-> None, Lines |-> None]
Docs ==
    {[t |-> k, Description |-> None, Lines |-> None] : k \in {"invalid", "null", "list"}}
    \cup {[t |-> "dict", Description |-> d, Lines |-> l] :
            d \in {None} \cup {Some(x) : x \in Descriptions},
            l \in {None} \cup {Some(x) : x \in LinesValues}}

NoResponse ==
    [received |-> FALSE, status |-> 0, content_type |-> << >>, read |-> "none",
     text |-> << >>, doc |-> NoDoc]

----------------------------------------------------------------------------
(* api.py: ATMClient *)

ATMApiErrors == {"ATMApiError", "ATMApiConnectionError", "ATMApiInvalidStopError"}

NoOutcome == [kind |-> "none", exc |-> "", msg |-> "", code |-> 0, data |-> NoDoc]
Raise(exc, msg, code) ==
    [kind |-> "raise", exc |-> exc, msg |-> msg, code |-> code, data |-> NoDoc]
Return(data) == [kind |-> "return", exc |-> "", msg |-> "", code |-> 0, data |-> data]

\* _get_session: the session the call uses, and whether the client owns it
get_session_session == IF session # "None" THEN session ELSE "owned"
get_session_owns == IF session # "None" THEN owns_session ELSE TRUE

\* "text/html" in content_type
IsHtml(content_type) == Contains(content_type, CT_HTML)

\* The checks made when the response's status line and headers are in:
\* either the call raises, or it goes on to read the body as text or as JSON.
ContentTypeBeforeStatus(status, content_type) ==
    IF IsHtml(content_type)
    THEN [next |-> "reading_text", outcome |-> NoOutcome]
    ELSE IF status = 404
    THEN [next |-> "done", outcome |-> Raise("ATMApiInvalidStopError", "not found", status)]
    ELSE IF status = 403
    THEN [next |-> "done", outcome |-> Raise("ATMApiConnectionError", "403 Forbidden", status)]
    ELSE IF status # 200
    THEN [next |-> "done", outcome |-> Raise("ATMApiError", "API returned status", status)]
    ELSE [next |-> "reading_json", outcome |-> NoOutcome]
OnHeaders(status, content_type) ==
    IF status = 404
    THEN [next |-> "done", outcome |-> Raise("ATMApiInvalidStopError", "not found", status)]
    ELSE IF status = 403
    THEN [next |-> "done", outcome |-> Raise("ATMApiConnectionError", "403 Forbidden", status)]
    ELSE IF status # 200
    THEN [next |-> "done", outcome |-> Raise("ATMApiError", "API returned status", status)]
    ELSE IF IsHtml(content_type)
    THEN [next |-> "reading_text", outcome |-> NoOutcome]
    ELSE [next |-> "reading_json", outcome |-> NoOutcome]

\* After response.text(): an HTML page is a block page or an unexpected one
OnText(text) ==
    IF Contains(text, AccessDenied) \/ Contains(lower(text), lower(AccessDenied))
    THEN Raise("ATMApiConnectionError", "blocked by protection", 200)
    ELSE Raise("ATMApiError", "HTML instead of JSON", 200)

\* response.json(): aiohttp raises ContentTypeError (a ClientError) for a content
\* type that is not JSON, json.loads raises JSONDecodeError (a ValueError) for a
\* body that is not JSON; otherwise the decoded value
json(content_type, doc) ==
    IF ~Contains(lower(content_type), CT_JSON)
    THEN [raised |-> "ContentTypeError", value |-> NoDoc]
    ELSE IF doc.t = "invalid"
    THEN [raised |-> "JSONDecodeError", value |-> NoDoc]
    ELSE [raised |-> "", value |-> doc]

\* len(data.get("Lines", [])), an argument of the debug log: TypeError for a value
\* without a length
LenRaises(data) == data.Lines # None /\ data.Lines[1].t \in {"null", "int"}

\* The fields checked before the payload is returned
ValidateSkipsLines(data) ==
    IF data.t # "dict"
    THEN Raise("ATMApiError", "expected dictionary", 200)
    ELSE IF data.Description = None
    THEN Raise("ATMApiError", "missing 'Description' field", 200)
    ELSE IF LenRaises(data)
    THEN Raise("TypeError", "object has no len()", 200)
    ELSE Return(data)
Validate(data) ==
    IF data.t # "dict"
    THEN Raise("ATMApiError", "expected dictionary", 200)
    ELSE IF data.Description = None
    THEN Raise("ATMApiError", "missing 'Description' field", 200)
    ELSE IF data.Lines = None
    THEN Raise("ATMApiError", "missing 'Lines' field", 200)
    ELSE IF LenRaises(data)
    THEN Raise("TypeError", "object has no len()", 200)
    ELSE Return(data)

\* After response.json(): the except clauses, then the validation
OnJson(content_type, doc) ==
    LET r == json(content_type, doc)
    IN  IF r.raised = "ContentTypeError"
        THEN Raise("ATMApiConnectionError", "Error connecting", 200)
        ELSE IF r.raised # ""
        THEN Raise(r.raised, "", 200)
        ELSE Validate(r.value)

\* The phases of a call in which it waits for the upstream
InFlight == {"connecting", "sending", "reading_text", "reading_json"}

\* Whether a timeout ends a call waiting in phase p on session sess: the block
\* "async with asyncio.timeout(API_TIMEOUT)" encloses the request and both body
\* reads, whatever the session; an owned session also has
\* ClientTimeout(total=API_TIMEOUT) of its own.
OnlySessionTimeout(p, sess) == sess = "owned"
TimeoutApplies(p, sess) == p \in InFlight \/ sess = "owned"

\* async_get_stop up to its first wait: _get_session, then the one session.get
CallBegins ==
    /\ session' = get_session_session
    /\ owns_session' = get_session_owns
    /\ pc' = "connecting"
    /\ elapsed' = 0
    /\ gets' = 1
    /\ response' = NoResponse
    /\ outcome' = NoOutcome

\* The connection is made and the request is on its way
Connected ==
    /\ pc = "connecting"
    /\ pc' = "sending"
    /\ UNCHANGED <<session, owns_session, elapsed, gets, response, outcome>>
    /\ UNCHANGED <<parseVars, coordVars, setupVars, sensorVars, flowVars, sessionVars>>

\* aiohttp raises a ClientError in any phase (no route, reset, broken payload)
NetworkFails ==
    /\ pc \in InFlight
    /\ pc' = "done"
    /\ outcome' = Raise("ATMApiConnectionError", "Error connecting", 0)
    /\ UNCHANGED <<session, owns_session, elapsed, gets, response>>
    /\ UNCHANGED <<parseVars, coordVars, setupVars, sensorVars, flowVars, sessionVars>>

\* The status line and the headers arrive
HeadersArrive ==
    /\ pc = "sending"
    /\ \E status \in Statuses, content_type \in ContentTypes :
        /\ response' = [NoResponse EXCEPT !.received = TRUE, !.status = status,
                                          !.content_type = content_type]
        /\ pc' = OnHeaders(status, content_type).next
        /\ outcome' = OnHeaders(status, content_type).outcome
    /\ UNCHANGED <<session, owns_session, elapsed, gets>>
    /\ UNCHANGED <<parseVars, coordVars, setupVars, sensorVars, flowVars, sessionVars>>

\* await response.text() completes
TextArrives ==
    /\ pc = "reading_text"
    /\ \E text \in Texts :
        /\ response' = [response EXCEPT !.read = "text", !.text = text]
        /\ outcome' = OnText(text)
    /\ pc' = "done"
    /\ UNCHANGED <<session, owns_session, elapsed, gets>>
    /\ UNCHANGED <<parseVars, coordVars, setupVars, sensorVars, flowVars, sessionVars>>

\* await response.json() completes
JsonArrives ==
    /\ pc = "reading_json"
    /\ \E doc \in Docs :
        /\ response' = [response EXCEPT !.read = "json", !.doc = doc]
        /\ outcome' = OnJson(response.content_type, doc)
    /\ pc' = "done"
    /\ UNCHANGED <<session, owns_session, elapsed, gets>>
    /\ UNCHANGED <<parseVars, coordVars, setupVars, sensorVars, flowVars, sessionVars>>

\* One unit of time passes while the call waits
Tick ==
    /\ pc \in InFlight
    /\ elapsed < API_TIMEOUT
    /\ elapsed' = elapsed + 1
    /\ UNCHANGED <<session, owns_session, pc, gets, response, outcome>>
    /\ UNCHANGED <<parseVars, coordVars, setupVars, sensorVars, flowVars, sessionVars>>

\* The timeout expires: asyncio.TimeoutError, caught and raised as a
\* connection error
Timeout ==
    /\ pc \in InFlight
    /\ elapsed = API_TIMEOUT
    /\ TimeoutApplies(pc, session)
    /\ pc' = "done"
    /\ outcome' = Raise("ATMApiConnectionError", "Timeout", 0)
    /\ UNCHANGED <<session, owns_session, elapsed, gets, response>>
    /\ UNCHANGED <<parseVars, coordVars, setupVars, sensorVars, flowVars, sessionVars>>

----------------------------------------------------------------------------
(* coordinator.py: ATMStopCoordinator._async_update_data *)

\* A refresh starts: the coordinator awaits async_get_stop
Refresh ==
    /\ pc = "idle"
    /\ ~refreshing
    /\ refreshing' = TRUE
    /\ coord_result' = "pending"
    /\ CallBegins
    /\ UNCHANGED stop_name
    /\ UNCHANGED <<parseVars, setupVars, sensorVars, flowVars, sessionVars>>

\* What the refresh ends with, given how async_get_stop ended: "except
\* ATMApiError" turns the client's errors into UpdateFailed, anything else
\* propagates as it is
RefreshResult(o) ==
    IF o.kind = "raise"
    THEN IF o.exc \in ATMApiErrors THEN "UpdateFailed" ELSE o.exc
    ELSE "returned"

\* data.get("Description", f"Stop {stop_id}")
DescriptionOf(data) ==
    IF data.Description # None THEN data.Description[1] ELSE "Stop <stop_id>"

\* async_get_stop has ended and the refresh goes on to its end
RefreshEnds ==
    /\ pc = "done"
    /\ refreshing
    /\ refreshing' = FALSE
    /\ coord_result' = RefreshResult(outcome)
    /\ stop_name' = IF outcome.kind = "return"
                    THEN Some(DescriptionOf(outcome.data))
                    ELSE stop_name
    /\ pc' = "idle"
    /\ UNCHANGED <<session, owns_session, elapsed, gets, response, outcome>>
    /\ UNCHANGED <<parseVars, setupVars, sensorVars, flowVars, sessionVars>>

----------------------------------------------------------------------------
(* sensor.py: async_setup_entry *)

\* A "Line" object: LineCode may be missing; LineDescription and TransportMode
LineObjects ==
    {[LineCode |-> c, LineDescription |-> d.desc, TransportMode |-> d.mode] :
        c \in {None, Some(<<"1">>), Some(<<"1", "_", "0">>)},
        d \in {[desc |-> Some("A"), mode |-> Some(0)],
               [desc |-> Some("B"), mode |-> None]}}

\* The Direction field: missing, a string, or a number
Directions ==
    {None, Some(StrValue(<<"0">>)), Some(StrValue(<<"0", "_", "0">>)),
     Some(IntValue(0))}

\* The WaitMessage field: missing, or a minutes message
FiveMin == <<"5", " ", "m", "i", "n">>
WaitMessages == {NoMessage, Message(FiveMin)}

\* One entry of Lines; its "Line" object may be missing
LineEntries ==
    {[Line |-> l, Direction |-> d, WaitMessage |-> w] :
        l \in {None} \cup {Some(x) : x \in LineObjects}, d \in Directions,
        w \in WaitMessages}

\* str(x) for a str or an int
str(x) == IF x.t = "int" THEN Numeral(x.n) ELSE x.s

\* line_info = line.get("Line", {}); line_info.get("LineCode", "")
line_code_of(line) ==
    IF line.Line # None /\ line.Line[1].LineCode # None
    THEN line.Line[1].LineCode[1]
    ELSE << >>

\* str(line.get("Direction", "0"))
direction_of(line) ==
    IF line.Direction # None THEN str(line.Direction[1]) ELSE <<"0">>

\* f"{line_code}_{direction}"
entity_key(line_code, direction) == line_code \o <<"_">> \o direction

\* ATMLineSensor(coordinator, stop_id, line_code, direction, line_description,
\* transport_mode) for an entry of Lines
ATMLineSensor(line) ==
    [line_code |-> line_code_of(line),
     direction |-> direction_of(line),
     line_description |->
        IF line.Line # None /\ line.Line[1].LineDescription # None
        THEN line.Line[1].LineDescription[1]
        ELSE "",
     transport_mode |->
        IF line.Line # None THEN line.Line[1].TransportMode ELSE None]

\* The loop over coordinator.data["Lines"], from entry i on, with the keys seen
\* and the sensors made so far
RECURSIVE setup_loop(_, _, _, _)
setup_loop(ls, i, seen_keys, made) ==
    IF i > Len(ls) THEN made
    ELSE LET key == entity_key(line_code_of(ls[i]), direction_of(ls[i]))
         IN  IF key \in seen_keys
             THEN setup_loop(ls, i + 1, seen_keys, made)
             ELSE setup_loop(ls, i + 1, seen_keys \cup {key},
                             Append(made, ATMLineSensor(ls[i])))

\* _find_line_data: the first entry of Lines whose line_info.get("LineCode")
\* equals the sensor's line code and whose str(line.get("Direction", ""))
\* equals its direction, or None
Matches(line, sensor) ==
    /\ line.Line # None
    /\ line.Line[1].LineCode # None
    /\ line.Line[1].LineCode[1] = sensor.line_code
    /\ (IF line.Direction # None THEN str(line.Direction[1]) ELSE << >>)
            = sensor.direction

find_line_data(ls, sensor) ==
    LET found == {i \in 1..Len(ls) : Matches(ls[i], sensor)}
    IN  IF found = {} THEN None
        ELSE Some(ls[CHOOSE i \in found : \A j \in found : i <= j])

\* _update_parsed_state between its entry and its end: the sensor's _parsed
\* after it, and whether parse_wait_message raised on the way, which leaves
\* _parsed as it was. An entry that was found is a non-empty dict.
update_parsed_state(ls, sensor, old) ==
    LET line_data == find_line_data(ls, sensor)
        result == parse_wait_message(line_data[1].WaitMessage)
    IN  IF line_data = None THEN [raised |-> FALSE, parsed |-> None]
        ELSE IF result.kind = "raise" THEN [raised |-> TRUE, parsed |-> old]
        ELSE [raised |-> FALSE, parsed |-> Some(result)]

\* native_value, native_unit_of_measurement and available of a sensor
native_value(p) == IF p = None THEN None ELSE Some(p[1].state_value)
native_unit_of_measurement(p) == IF p = None THEN None ELSE p[1].unit
available(ls, sensor, success) ==
    IF ~success THEN FALSE ELSE find_line_data(ls, sensor) # None

\* async_setup_entry: the loop builds the sensors, each constructor computing
\* its parsed state; one that raises ends the setup before async_add_entities
Setup ==
    /\ ~setup_done
    /\ LET made == setup_loop(lines, 1, {}, << >>)
           first == [k \in 1..Len(made) |->
                        update_parsed_state(lines, made[k], None)]
       IN  IF \E k \in 1..Len(made) : first[k].raised
           THEN /\ setup_raised' = TRUE
                /\ entities' = << >>
                /\ parsed_states' = << >>
           ELSE /\ setup_raised' = FALSE
                /\ entities' = made
                /\ parsed_states' = [k \in 1..Len(made) |-> first[k].parsed]
    /\ setup_done' = TRUE
    /\ UNCHANGED <<lines, last_update_success>>
    /\ UNCHANGED <<parseVars, clientVars, coordVars, flowVars, sessionVars>>

\* A refresh of the coordinator ends and every sensor is notified: on
\* success the data is the new snapshot, on failure it stays; each sensor's
\* _handle_coordinator_update recomputes its parsed state
CoordinatorUpdate(new, success) ==
    /\ setup_done
    /\ ~setup_raised
    /\ lines' = IF success THEN new ELSE lines
    /\ last_update_success' = success
    /\ parsed_states' =
        [k \in 1..Len(entities) |->
            update_parsed_state(lines', entities[k], parsed_states[k]).parsed]
    /\ UNCHANGED <<entities, setup_done, setup_raised>>
    /\ UNCHANGED <<parseVars, clientVars, coordVars, flowVars, sessionVars>>

\* The snapshots the sensors are followed through: lines 1 and 2, with or
\* without a Direction, with no wait message, minutes, or a fixed phrase
SensorEntries ==
    {[Line |-> Some([LineCode |-> Some(c), LineDescription |-> Some("A"),
                     TransportMode |-> Some(0)]),
      Direction |-> d, WaitMessage |-> w] :
        c \in {<<"1">>, <<"2">>},
        d \in {None, Some(StrValue(<<"0">>))},
        w \in {NoMessage, Message(FiveMin), Message(STATUS_IN_ARRIVO)}}
Snapshots == UNION {[1..k -> SensorEntries] : k \in 0..MaxSnapshot}

Update == \E new \in Snapshots, success \in BOOLEAN : CoordinatorUpdate(new, success)

----------------------------------------------------------------------------
(* config_flow.py: the user step of the configuration flow *)

\* the longest stop identifier the step accepts
StopIdMaxLen == 10

\* str.isdigit: at least one character, and digits only
isdigit(s) == Len(s) >= 1 /\ \A i \in 1..Len(s) : s[i] \in Digit

RejectsOnlyNonDigits(stop_id) == ~isdigit(stop_id)

\* not stop_id.isdigit() or len(stop_id) < 1 or len(stop_id) > 10
stop_id_rejected(stop_id) ==
    ~isdigit(stop_id) \/ Len(stop_id) < 1 \/ Len(stop_id) > StopIdMaxLen

\* The except clauses of the step, in their order
errors_base(exc) ==
    IF exc = "ATMApiInvalidStopError" THEN "invalid_stop"
    ELSE IF exc = "ATMApiConnectionError" THEN "cannot_connect"
    ELSE "unknown"

\* What is typed into the stop field
StopAlphabet == {"1", "a", " "}
Ones(n) == [i \in 1..n |-> "1"]
ListedStopInputs ==
    {<<" ", "1", " ">>, <<"1", "a">>, <<"1", " ", "1">>,
     Ones(StopIdMaxLen), Ones(StopIdMaxLen + 1),
     <<" ">> \o Ones(StopIdMaxLen)}

\* async_step_user(None): the empty form
ShowForm ==
    /\ flow_result # "pending"
    /\ pc = "idle"
    /\ flow_input' = None
    /\ flow_result' = "form"
    /\ flow_error' = ""
    /\ flow_title' = ""
    /\ flow_fetches' = 0
    /\ UNCHANGED configured
    /\ UNCHANGED <<parseVars, clientVars, coordVars, setupVars, sensorVars, sessionVars>>

\* async_step_user(user_input), up to the await of async_get_stop: the format
\* check, the abort of an already configured stop, and the call on a client
\* built around the shared session
SubmitStop(s) ==
    /\ flow_result # "pending"
    /\ pc = "idle"
    /\ flow_input' = Some(s)
    /\ flow_title' = ""
    /\ UNCHANGED configured
    /\ IF stop_id_rejected(strip(s))
       THEN /\ flow_result' = "form"
            /\ flow_error' = "invalid_stop_id"
            /\ flow_fetches' = 0
            /\ UNCHANGED clientVars
       ELSE IF strip(s) \in configured
       THEN /\ flow_result' = "abort"
            /\ flow_error' = "already_configured"
            /\ flow_fetches' = 0
            /\ UNCHANGED clientVars
       ELSE /\ flow_result' = "pending"
            /\ flow_error' = ""
            /\ flow_fetches' = 1
            /\ CallBegins
    /\ UNCHANGED <<parseVars, coordVars, setupVars, sensorVars, sessionVars>>

Submit ==
    \/ \E k \in 0..MaxStopLen : \E s \in [1..k -> StopAlphabet] : SubmitStop(s)
    \/ \E s \in ListedStopInputs : SubmitStop(s)

\* async_step_user from the end of async_get_stop on: the entry, or the form
\* with the error of the except clause
StepEnds ==
    /\ flow_result = "pending"
    /\ pc = "done"
    /\ pc' = "idle"
    /\ IF outcome.kind = "return"
       THEN /\ flow_result' = "create_entry"
            /\ flow_error' = ""
            /\ flow_title' = DescriptionOf(outcome.data)
            /\ configured' = configured \cup {strip(flow_input[1])}
       ELSE /\ flow_result' = "form"
            /\ flow_error' = errors_base(outcome.exc)
            /\ flow_title' = ""
            /\ UNCHANGED configured
    /\ UNCHANGED <<flow_input, flow_fetches>>
    /\ UNCHANGED <<session, owns_session, elapsed, gets, response, outcome>>
    /\ UNCHANGED <<parseVars, coordVars, setupVars, sensorVars, sessionVars>>

----------------------------------------------------------------------------
(* api.py: the sessions of one client under overlapping calls. Sessions are
   numbered: 0 is the one injected at construction, 1, 2, ... are the ones
   _get_session creates. *)

InjectedSession == 0

\* _get_session: the session the client holds after it
get_session(sess, n) == IF sess # None THEN sess ELSE Some(n + 1)

\* async_get_stop, up to its first await: _get_session runs without
\* suspending; session.get on a closed session raises at once, otherwise the
\* call is in flight
FetchStarts ==
    /\ started < MaxCalls
    /\ started' = started + 1
    /\ c_session' = get_session(c_session, created)
    /\ IF c_session = None
       THEN /\ created' = created + 1
            /\ open_sessions' = open_sessions \cup {created + 1}
            /\ c_owns' = TRUE
       ELSE UNCHANGED <<created, open_sessions, c_owns>>
    /\ IF c_session # None /\ c_session[1] \notin open_sessions
       THEN /\ last_completed' = "fetch"
            /\ UNCHANGED fetching
       ELSE /\ fetching' = fetching + 1
            /\ UNCHANGED last_completed
    /\ UNCHANGED closing
    /\ UNCHANGED <<parseVars, clientVars, coordVars, setupVars, sensorVars, flowVars>>

\* async_get_stop returns or raises
FetchEnds ==
    /\ fetching > 0
    /\ fetching' = fetching - 1
    /\ last_completed' = "fetch"
    /\ UNCHANGED <<c_session, c_owns, open_sessions, created, closing, started>>
    /\ UNCHANGED <<parseVars, clientVars, coordVars, setupVars, sensorVars, flowVars>>

\* async_close, up to "await self._session.close()": the session it holds is
\* closed and the call is suspended; a client that owns no session returns
CloseStarts ==
    /\ started < MaxCalls
    /\ started' = started + 1
    /\ IF c_owns /\ c_session # None
       THEN /\ open_sessions' = open_sessions \ {c_session[1]}
            /\ closing' = closing + 1
            /\ UNCHANGED last_completed
       ELSE /\ last_completed' = "close"
            /\ UNCHANGED <<open_sessions, closing>>
    /\ UNCHANGED <<c_session, c_owns, created, fetching>>
    /\ UNCHANGED <<parseVars, clientVars, coordVars, setupVars, sensorVars, flowVars>>

\* async_close, after the await: self._session = None, self._owns_session =
\* False
CloseResumes ==
    /\ closing > 0
    /\ closing' = closing - 1
    /\ c_session' = None
    /\ c_owns' = FALSE
    /\ last_completed' = "close"
    /\ UNCHANGED <<open_sessions, created, fetching, started>>
    /\ UNCHANGED <<parseVars, clientVars, coordVars, setupVars, sensorVars, flowVars>>

----------------------------------------------------------------------------
(* parse_wait_message applied to a message *)

Parse ==
    /\ parsed.kind = "pending"
    /\ parsed' = parse_wait_message(wait_msg)
    /\ UNCHANGED <<wait_msg, form>>
    /\ UNCHANGED <<clientVars, coordVars, setupVars, sensorVars, flowVars, sessionVars>>

----------------------------------------------------------------------------
(* Specifications *)

ParseIdle ==
    /\ wait_msg = NoMessage
    /\ form = Form("none", 0, << >>)
    /\ parsed = ParsePending

ClientIdle ==
    /\ session = "None"
    /\ owns_session = FALSE
    /\ pc = "idle"
    /\ elapsed = 0
    /\ gets = 0
    /\ response = NoResponse
    /\ outcome = NoOutcome

CoordIdle ==
    /\ stop_name = None
    /\ refreshing = FALSE
    /\ coord_result = "none"

SetupIdle ==
    /\ lines = << >>
    /\ entities = << >>
    /\ setup_done = FALSE

SensorIdle ==
    /\ parsed_states = << >>
    /\ setup_raised = FALSE
    /\ last_update_success = TRUE

FlowIdle ==
    /\ flow_input = None
    /\ flow_result = "none"
    /\ flow_error = ""
    /\ flow_title = ""
    /\ flow_fetches = 0
    /\ configured = {}

SessionIdle ==
    /\ c_session = None
    /\ c_owns = FALSE
    /\ open_sessions = {}
    /\ created = 0
    /\ closing = 0
    /\ fetching = 0
    /\ started = 0
    /\ last_completed = "none"

\* The parser, applied to None, to every minutes message and fixed-phrase
\* message within the bounds, and to other texts
InitParse ==
    /\ \/ \E pre \in Pads, mid \in Pads, post \in Pads, zero \in {<< >>, <<"0">>},
             n \in 0..MaxMinutes, mask \in SUBSET (1..3) :
            /\ wait_msg = MinuteMessage(pre, zero, n, mid, mask, post)
            /\ form = Form("minutes", n, << >>)
       \/ \E pre \in Pads, post \in Pads, p \in Phrases, mask \in SUBSET (1..9) :
            /\ wait_msg = PhraseMessage(pre, p, mask, post)
            /\ form = Form("phrase", 0, p)
       \/ \E k \in 0..MaxLen : \E s \in [1..k -> Alphabet] :
            /\ wait_msg = Message(s)
            /\ form = Form("any", 0, << >>)
       \/ \E s \in LongerTexts :
            /\ wait_msg = Message(s)
            /\ form = Form("any", 0, << >>)
       \/ /\ wait_msg = NoMessage
          /\ form = Form("none", 0, << >>)
    /\ parsed = ParsePending
    /\ ClientIdle /\ CoordIdle /\ SetupIdle
    /\ SensorIdle /\ FlowIdle /\ SessionIdle
NextParse == Parse
SpecParse == InitParse /\ [][NextParse]_vars

\* The coordinator refreshing through a client built without a session
\* (coordinator.py) or around an injected one (config_flow.py)
Init ==
    /\ session \in {"None", "injected"}
    /\ owns_session = FALSE
    /\ pc = "idle"
    /\ elapsed = 0
    /\ gets = 0
    /\ response = NoResponse
    /\ outcome = NoOutcome
    /\ CoordIdle /\ ParseIdle /\ SetupIdle
    /\ SensorIdle /\ FlowIdle /\ SessionIdle
Next ==
    \/ Refresh
    \/ Connected
    \/ NetworkFails
    \/ HeadersArrive
    \/ TextArrives
    \/ JsonArrives
    \/ Tick
    \/ Timeout
    \/ RefreshEnds
Spec == Init /\ [][Next]_vars

\* Time passes and an expired timeout fires; the upstream owes nothing
FairSpec == Spec /\ WF_vars(Tick) /\ WF_vars(Timeout) /\ WF_vars(RefreshEnds)

\* The sensor setup, applied to each Lines sequence of at most MaxLines entries
InitSetup ==
    /\ lines \in UNION {[1..k -> LineEntries] : k \in 0..MaxLines}
    /\ entities = << >>
    /\ setup_done = FALSE
    /\ ParseIdle /\ ClientIdle /\ CoordIdle
    /\ SensorIdle /\ FlowIdle /\ SessionIdle
NextSetup == Setup
SpecSetup == InitSetup /\ [][NextSetup]_vars

\* The configuration step, called first without input and then with what is
\* typed into the form, on a client built around the shared session
InitFlow ==
    /\ session = "injected"
    /\ owns_session = FALSE
    /\ pc = "idle"
    /\ elapsed = 0
    /\ gets = 0
    /\ response = NoResponse
    /\ outcome = NoOutcome
    /\ FlowIdle
    /\ ParseIdle /\ CoordIdle /\ SetupIdle /\ SensorIdle /\ SessionIdle
NextFlow ==
    \/ ShowForm
    \/ Submit
    \/ Connected
    \/ NetworkFails
    \/ HeadersArrive
    \/ TextArrives
    \/ JsonArrives
    \/ Tick
    \/ Timeout
    \/ StepEnds
SpecFlow == InitFlow /\ [][NextFlow]_vars

\* One client, built without a session (coordinator.py) or around an injected
\* one (config_flow.py), under any interleaving of its calls
InitSession ==
    /\ \/ /\ c_session = None
          /\ open_sessions = {}
       \/ /\ c_session = Some(InjectedSession)
          /\ open_sessions = {InjectedSession}
    /\ c_owns = FALSE
    /\ created = 0
    /\ closing = 0
    /\ fetching = 0
    /\ started = 0
    /\ last_completed = "none"
    /\ ParseIdle /\ ClientIdle /\ CoordIdle /\ SetupIdle /\ SensorIdle /\ FlowIdle
NextSession ==
    \/ FetchStarts
    \/ FetchEnds
    \/ CloseStarts
    \/ CloseResumes
SpecSession == InitSession /\ [][NextSession]_vars

\* The sensors the setup makes from a first snapshot, through any sequence of
\* refreshes
InitSensor ==
    /\ lines \in Snapshots
    /\ entities = << >>
    /\ setup_done = FALSE
    /\ SensorIdle
    /\ ParseIdle /\ ClientIdle /\ CoordIdle /\ FlowIdle /\ SessionIdle
NextSensor ==
    \/ Setup
    \/ Update
SpecSensor == InitSensor /\ [][NextSensor]_vars

----------------------------------------------------------------------------
(* Properties of parse_wait_message, under SpecParse *)

\* t starts with optional whitespace, one or more digits, optional whitespace
\* and "min" in any letter case
MinutesShape(t) ==
    \E a \in 0..Len(t), b \in 0..Len(t), c \in 0..Len(t) :
        /\ a < b /\ b <= c /\ c + 3 <= Len(t)
        /\ \A i \in 1..a : t[i] \in Whitespace
        /\ \A i \in (a + 1)..b : t[i] \in Digit
        /\ \A i \in (b + 1)..c : t[i] \in Whitespace
        /\ LowerChar(t[c + 1]) = "m"
        /\ LowerChar(t[c + 2]) = "i"
        /\ LowerChar(t[c + 3]) = "n"

Unknown == <<"u", "n", "k", "n", "o", "w", "n">>

\* C1: parse_wait_message never raises, and an input that is absent, empty or
\* matches neither the minutes pattern nor a fixed phrase gives status
\* unknown_text with no minutes and no unit; state_value "unknown" and raw_text
\* "" for an absent input, the trimmed input for both otherwise.
C1_ParseIsTotal ==
    parsed.kind # "pending" =>
        /\ parsed.kind = "return"
        /\ ~wait_msg.present =>
            /\ parsed.status = "unknown_text"
            /\ parsed.wait_minutes = None
            /\ parsed.unit = None
            /\ parsed.state_value = StrValue(Unknown)
            /\ parsed.raw_text = << >>
        /\ (/\ wait_msg.present
            /\ ~MinutesShape(strip(wait_msg.text))
            /\ lower(strip(wait_msg.text)) \notin Phrases) =>
            /\ parsed.status = "unknown_text"
            /\ parsed.wait_minutes = None
            /\ parsed.unit = None
            /\ parsed.state_value = StrValue(strip(wait_msg.text))
            /\ parsed.raw_text = strip(wait_msg.text)

C3_PhrasesParsed ==
    parsed.kind # "pending" =>
        /\ form.kind = "phrase" =>
            /\ parsed.kind = "return"
            /\ form.phrase = STATUS_IN_ARRIVO =>
                parsed.status = "arriving" /\ parsed.wait_minutes = Some(0)
            /\ form.phrase = STATUS_RICALCOLO =>
                parsed.status = "recalculating" /\ parsed.wait_minutes = None
            /\ form.phrase = STATUS_SOPPRESSA =>
                parsed.status = "cancelled" /\ parsed.wait_minutes = None
            /\ parsed.state_value = StrValue(strip(wait_msg.text))
            /\ parsed.raw_text = strip(wait_msg.text)
            /\ parsed.unit = None
        /\ parsed.kind = "return" =>
            parsed.status \in {"minutes", "arriving", "recalculating",
                               "cancelled", "unknown_text"}

----------------------------------------------------------------------------
(* Properties of async_get_stop and of the coordinator, under Spec *)

\* the text contains "access denied" in some letter case
MentionsAccessDenied(text) ==
    \E i \in 1..Len(text) :
        /\ i + 12 <= Len(text)
        /\ \A k \in 0..12 : LowerChar(text[i + k]) = LowerChar(AccessDenied[k + 1])

\* the content type names HTML the way the client looks for it
HtmlContentType(content_type) ==
    \E i \in 1..Len(content_type) :
        /\ i + 8 <= Len(content_type)
        /\ \A k \in 0..8 : content_type[i + k] = CT_HTML[k + 1]

Raised(exc) == outcome.kind = "raise" /\ outcome.exc = exc

C5_ParseFailureIsApiError ==
    (/\ pc = "done"
     /\ response.status = 200
     /\ ~HtmlContentType(response.content_type)
     /\ response.read = "json"
     /\ json(response.content_type, response.doc).raised # "") =>
        Raised("ATMApiError")

\* C6: a payload is returned only for a body that is a mapping with both
\* Description and Lines; a decoded body that is no mapping or lacks a field
\* fails with ApiError naming what is missing.
C6_OnlyValidatedPayload ==
    pc = "done" =>
        /\ outcome.kind = "return" =>
            /\ response.read = "json"
            /\ response.doc.t = "dict"
            /\ response.doc.Description # None
            /\ response.doc.Lines # None
            /\ outcome.data = response.doc
        /\ (/\ response.read = "json"
            /\ json(response.content_type, response.doc).raised = ""
            /\ \/ response.doc.t # "dict"
               \/ response.doc.Description = None
               \/ response.doc.Lines = None) =>
            /\ Raised("ATMApiError")
            /\ outcome.msg =
                 IF response.doc.t # "dict" THEN "expected dictionary"
                 ELSE IF response.doc.Description = None
                 THEN "missing 'Description' field"
                 ELSE "missing 'Lines' field"

\* a mapping with a Description and no Lines, refused naming Lines
C6_Witness ==
    /\ pc = "done"
    /\ response.read = "json"
    /\ response.doc.t = "dict"
    /\ response.doc.Description # None
    /\ response.doc.Lines = None
    /\ Raised("ATMApiError")
    /\ outcome.msg = "missing 'Lines' field"

\* C7: a call ends by returning a payload or by raising one of ConnectionError,
\* InvalidStopError, ApiError, whatever the upstream does.
C7_OnlyTaxonomy ==
    pc = "done" =>
        \/ outcome.kind = "return"
        \/ outcome.kind = "raise" /\ outcome.exc \in ATMApiErrors

\* C8: every call completes: the timeout of API_TIMEOUT covers connecting,
\* sending and both body reads, on an owned and on an injected session; a call
\* ended by it fails with ConnectionError, no call waits longer, and a
\* completed call has issued exactly one GET.
C8_CallCompletes ==
    /\ (pc \in InFlight) ~> (pc = "done")
    /\ [](pc \in InFlight => elapsed <= API_TIMEOUT)
    /\ []((pc = "done" /\ outcome.msg = "Timeout") =>
            Raised("ATMApiConnectionError") /\ elapsed = API_TIMEOUT)
    /\ [](pc = "done" => gets = 1)

\* the upstream sent the headers of a 200 JSON response on an injected session
\* and then stalled: the body read was ended by the timeout
C8_Witness ==
    /\ pc = "done"
    /\ session = "injected"
    /\ response.received
    /\ response.status = 200
    /\ response.read = "none"
    /\ ~HtmlContentType(response.content_type)
    /\ outcome.msg = "Timeout"
    /\ Raised("ATMApiConnectionError")
    /\ gets = 1

\* C10: a refresh whose fetch failed ends with UpdateFailed and leaves
\* stop_name as it was; stop_name changes only at the end of a refresh whose
\* fetch succeeded, to the payload's Description.
C10_FailuresBecomeUpdateFailed ==
    /\ []((~refreshing /\ coord_result # "none" /\ outcome.kind = "raise") =>
            coord_result = "UpdateFailed")
    /\ [][(refreshing /\ ~refreshing' /\ outcome.kind = "raise") =>
            stop_name' = stop_name]_vars
    /\ [][stop_name' # stop_name =>
            /\ refreshing /\ ~refreshing'
            /\ outcome.kind = "return"
            /\ stop_name' = outcome.data.Description]_vars

----------------------------------------------------------------------------
(* Properties of the sensor setup, under SpecSetup *)

\* the (lineCode, direction) pair of an entry
PairOf(line) == <<line_code_of(line), direction_of(line)>>

\* the positions of the entries that are the first with their pair
Firsts(ls) ==
    {i \in 1..Len(ls) : \A j \in 1..(i - 1) : PairOf(ls[j]) # PairOf(ls[i])}

\* C9: the setup, when it returns, makes one sensor per distinct (lineCode,
\* direction) pair, from the first entry with that pair, in order of first
\* occurrence; entries with different pairs are never collapsed.
C9_OneSensorPerPair ==
    (setup_done /\ ~setup_raised) =>
        /\ Len(entities) = Cardinality(Firsts(lines))
        /\ \A k \in 1..Len(entities) :
            \E i \in Firsts(lines) :
                /\ Cardinality({j \in Firsts(lines) : j <= i}) = k
                /\ entities[k] = ATMLineSensor(lines[i])


\* the positions of the entries the setup's loop makes a sensor from
Created(ls) ==
    {i \in 1..Len(ls) :
        \A j \in 1..(i - 1) :
            entity_key(line_code_of(ls[j]), direction_of(ls[j]))
                # entity_key(line_code_of(ls[i]), direction_of(ls[i]))}

\* C14: every sensor the setup created finds, in the snapshot it was created
\* from, the entry it was created from, so that it has a parsed state and is
\* available while the last update succeeded; this includes entries whose
\* Direction, Line or LineCode is missing and was defaulted.
C14_SensorFindsOwnEntry ==
    (setup_done /\ ~setup_raised) =>
        \A k \in 1..Len(entities) :
            \E i \in Created(lines) :
                /\ Cardinality({j \in Created(lines) : j <= i}) = k
                /\ find_line_data(lines, entities[k]) = Some(lines[i])
                /\ parsed_states[k] # None
                /\ available(lines, entities[k], last_update_success)

----------------------------------------------------------------------------
(* Properties of the line sensors through refreshes, under SpecSensor *)

\* the entry carries this line code and this direction
HasPair(line, line_code, direction) ==
    /\ line.Line # None
    /\ line.Line[1].LineCode # None
    /\ line.Line[1].LineCode[1] = line_code
    /\ line.Direction # None
    /\ str(line.Direction[1]) = direction

\* C13: whatever refreshes came before, a sensor's parsed state is the one
\* computed from the coordinator's current data: parse_wait_message applied to
\* the WaitMessage of the first entry of Lines with the sensor's line code and
\* direction; with no such entry the parsed state, native_value and unit are
\* absent and the sensor is unavailable.
C13_ParsedStateIsCurrent ==
    (setup_done /\ ~setup_raised) =>
        \A k \in 1..Len(entities) :
            LET own == {i \in 1..Len(lines) :
                            HasPair(lines[i], entities[k].line_code,
                                    entities[k].direction)}
                first == CHOOSE i \in own : \A j \in own : i <= j
                p == parsed_states[k]
            IN  IF own = {}
                THEN /\ p = None
                     /\ native_value(p) = None
                     /\ native_unit_of_measurement(p) = None
                     /\ ~available(lines, entities[k], last_update_success)
                ELSE /\ parse_wait_message(lines[first].WaitMessage).kind
                            = "return"
                     /\ p = Some(parse_wait_message(lines[first].WaitMessage))


----------------------------------------------------------------------------
(* Properties of the configuration step, under SpecFlow *)

\* t is empty, holds a non-digit or is longer than 10 characters
BadStopId(t) ==
    \/ Len(t) = 0
    \/ \E i \in 1..Len(t) : t[i] \notin Digit
    \/ Len(t) > 10

\* The step has ended for a submitted identifier
Stepped == flow_input # None /\ flow_result \notin {"none", "pending"}

----------------------------------------------------------------------------
(* Properties of the client's sessions, under SpecSession *)

\* The sessions the client created that are open
OwnedOpen == open_sessions \ {InjectedSession}

\* Every call made has completed, an async_close last
AllClosedLast == fetching = 0 /\ closing = 0 /\ last_completed = "close"

\* C12: in every interleaving of async_get_stop and async_close calls on one
\* client, at most one session the client created is open at a time; once all
\* calls have completed, an async_close last, every session it created is
\* closed and a client built without a session holds none; an injected
\* session is never closed by the client.
C12_NoSessionLeak ==
    /\ Cardinality(OwnedOpen) <= 1
    /\ AllClosedLast => OwnedOpen = {}
    /\ (AllClosedLast /\ c_session # Some(InjectedSession)) => c_session = None
    /\ c_session = Some(InjectedSession) => InjectedSession \in open_sessions

====
